---- MODULE Spec2Model ----
(***************************************************************************)
(* A model of wal-rust: WriteAheadLog (src/wal-rust/src/wal_basic.rs) and  *)
(* LogEntry (src/wal-rust/src/constants.rs).                               *)
(*                                                                         *)
(* The log file is a sequence of tokens (chunks of bytes).  A record is    *)
(* the JSON text of one LogEntry, two tokens long, followed by a newline   *)
(* token.  `file` is what a reader of the file sees; its first `synced`    *)
(* tokens are on stable storage.  write_log_entry is modelled step by step *)
(* (load of the counter, store of the counter, entry construction and      *)
(* open, the two writes of writeln!, sync_all and return), so that a       *)
(* crash, an I/O error or another thread can come between two steps.       *)
(* SystemTime::now() is a logical clock, the number of calls started.      *)
(***************************************************************************)
EXTENDS Integers, Sequences, FiniteSets, TLC

VARIABLES
    exists,            \* Path::new(&log_file_path).exists()
    file,              \* the content of the log file, a sequence of tokens
    synced,            \* length of the prefix of file that is on stable storage
    alive,             \* a WriteAheadLog instance exists (the process is up)
    sequence_counter,  \* WriteAheadLog.sequence_counter of the instance
    pc,                \* per thread: position inside write_log_entry
    arg,               \* per thread: the arguments of the call in progress
    reg,               \* per thread: the counter value loaded by `+= 1`
    ent,               \* per thread: the LogEntry built by the call
    clean,             \* per thread: the file held only complete lines when the record was written
    result,            \* the value returned by the call that ended in the last step
    calls,             \* history: the write_log_entry calls that returned
    ncalls,            \* history: number of write_log_entry calls started (the clock)
    crashed,           \* history: the process has crashed
    next,              \* history: number of external writes to the file
    removed            \* history: the file was removed by another program

vars == <<exists, file, synced, alive, sequence_counter, pc, arg, reg, ent,
          clean, result, calls, ncalls, crashed, next, removed>>

----------------------------------------------------------------------------
(* Bounds of the model *)

\* The number of writes to the file: write_log_entry calls and external writes.
MaxWrites == 3

\* The threads that call write_log_entry (test_concurrent_writes spawns several).
Threads == {"t1", "t2"}

----------------------------------------------------------------------------
(* constants.rs: OperationType, Option<Value>, LogEntry *)

OperationType == {"INSERT", "UPDATE", "DELETE"}

\* serde_json::Value, written as its JSON text.  JNull is Value::Null.
JNull == "null"
V1 == "{\"name\":\"A\"}"
V2 == "{\"name\":\"B\"}"

\* Option<Value>
None == <<"None">>
Some(v) == <<"Some", v>>

\* The argument tuples a caller passes to write_log_entry.
Arg1 == [transaction_id |-> "txn1", operation_type |-> "INSERT", key |-> "key1",
         old_value |-> None, new_value |-> Some(V1)]
Arg2 == [transaction_id |-> "txn2", operation_type |-> "UPDATE", key |-> "key2",
         old_value |-> Some(JNull), new_value |-> Some(V2)]

Args == {Arg1, Arg2}

NoArg == [transaction_id |-> "", operation_type |-> "INSERT", key |-> "",
          old_value |-> None, new_value |-> None]

\* LogEntry::new; `now` is SystemTime::now() since the epoch.
LogEntryNew(sequence_number, a, now) ==
    [sequence_number |-> sequence_number,
     transaction_id  |-> a.transaction_id,
     operation_type  |-> a.operation_type,
     key             |-> a.key,
     old_value       |-> a.old_value,
     new_value       |-> a.new_value,
     timestamp       |-> now]

NoEntry == LogEntryNew(0, NoArg, 0)

----------------------------------------------------------------------------
(* The durable encoding: serde_json::to_string / from_str of a LogEntry *)

RB == <<"}">>
NL == <<"\n">>
SP == <<" ">>
GARBAGE == <<"invalid entry">>

\* Serialize for Option<Value>: None is written as null, Some(v) as v's text.
OptToJson(o) == IF o = None THEN JNull ELSE o[2]

\* Deserialize for Option<Value>: null is read as None, anything else as Some.
OptFromJson(j) == IF j = JNull THEN None ELSE Some(j)

\* serde_json::to_string(&log_entry): the opening brace with the seven
\* members, in declaration order, then the closing brace.
ToJson(e) ==
    << <<"{", e.sequence_number, e.transaction_id, e.operation_type, e.key,
         OptToJson(e.old_value), OptToJson(e.new_value), e.timestamp>>,
       RB >>

IsFields(tok) == Len(tok) = 8 /\ tok[1] = "{"

\* serde_json::from_str::<LogEntry>(line) succeeds.
ParsesOk(line) ==
    /\ Len(line) = 2
    /\ IsFields(line[1])
    /\ line[1][4] \in OperationType
    /\ line[2] = RB

\* The entry serde_json::from_str::<LogEntry>(line) returns when it succeeds.
FromJson(line) ==
    [sequence_number |-> line[1][2],
     transaction_id  |-> line[1][3],
     operation_type  |-> line[1][4],
     key             |-> line[1][5],
     old_value       |-> OptFromJson(line[1][6]),
     new_value       |-> OptFromJson(line[1][7]),
     timestamp       |-> line[1][8]]

----------------------------------------------------------------------------
(* read_log_entries *)

\* BufRead::lines: the chunks between newlines; a last chunk without a
\* newline is a line too, unless it is empty.
RECURSIVE SplitLines(_, _)
SplitLines(f, cur) ==
    IF f = <<>> THEN (IF cur = <<>> THEN <<>> ELSE <<cur>>)
    ELSE IF Head(f) = NL THEN <<cur>> \o SplitLines(Tail(f), <<>>)
    ELSE SplitLines(Tail(f), Append(cur, Head(f)))

Lines(f) == SplitLines(f, <<>>)

\* str::trim
RECURSIVE TrimStart(_)
TrimStart(l) == IF l # <<>> /\ Head(l) = SP THEN TrimStart(Tail(l)) ELSE l

RECURSIVE TrimEnd(_)
TrimEnd(l) ==
    IF l # <<>> /\ l[Len(l)] = SP THEN TrimEnd(SubSeq(l, 1, Len(l) - 1)) ELSE l

Trim(l) == TrimEnd(TrimStart(l))

\* A scan that gives up at the first line that does not decode.
RECURSIVE ScanLinesAbort(_)
ScanLinesAbort(ls) ==
    IF ls = <<>> THEN <<>>
    ELSE LET line == Trim(Head(ls)) IN
         IF line = <<>> THEN ScanLinesAbort(Tail(ls))
         ELSE IF ParsesOk(line) THEN <<FromJson(line)>> \o ScanLinesAbort(Tail(ls))
         ELSE <<>>

\* The loop of read_log_entries over the lines.
RECURSIVE ScanLines(_)
ScanLines(ls) ==
    IF ls = <<>> THEN <<>>
    ELSE LET line == Trim(Head(ls)) IN
         IF line = <<>> THEN ScanLines(Tail(ls))
         ELSE IF ParsesOk(line) THEN <<FromJson(line)>> \o ScanLines(Tail(ls))
         ELSE ScanLines(Tail(ls))

\* The entries read_log_entries decodes from the content f.
Entries(f) == ScanLines(Lines(f))

\* What a call returns.  op: the call; ok: Ok or Err; ret: the sequence number
\* of an Ok append; entries: the entries of an Ok replay; err: the context of
\* an Err; ent: the entry a failed append had built.
Result(op, ok, ret, entries, err, e) ==
    [op |-> op, ok |-> ok, ret |-> ret, entries |-> entries, err |-> err, ent |-> e]

NoResult == Result("none", TRUE, 0, <<>>, "none", NoEntry)

\* io: "ok", or the I/O call that fails ("open": File::open, "read": a read of a line).
IoOutcomes == {"ok", "open", "read"}

\* A replay without the check that the file exists: File::open fails.
ReadLogEntriesNoExistsCheck(io) ==
    IF ~exists \/ io = "open"
    THEN Result("replay", FALSE, 0, <<>>, "Failed to open log file for reading", NoEntry)
    ELSE IF io = "read"
    THEN Result("replay", FALSE, 0, <<>>, "Failed to read line from log file", NoEntry)
    ELSE Result("replay", TRUE, 0, Entries(file), "none", NoEntry)

\* A read_log_entries that turns a line that does not decode into an Err.
ReadLogEntriesStrict(io) ==
    IF ~exists THEN Result("replay", TRUE, 0, <<>>, "none", NoEntry)
    ELSE IF io = "open"
    THEN Result("replay", FALSE, 0, <<>>, "Failed to open log file for reading", NoEntry)
    ELSE IF io = "read"
    THEN Result("replay", FALSE, 0, <<>>, "Failed to read line from log file", NoEntry)
    ELSE IF \E i \in 1..Len(Lines(file)) :
                /\ Trim(Lines(file)[i]) # <<>>
                /\ ~ParsesOk(Trim(Lines(file)[i]))
    THEN Result("replay", FALSE, 0, <<>>, "Failed to parse log entry", NoEntry)
    ELSE Result("replay", TRUE, 0, Entries(file), "none", NoEntry)

ReadLogEntries(io) ==
    IF ~exists THEN Result("replay", TRUE, 0, <<>>, "none", NoEntry)
    ELSE IF io = "open"
    THEN Result("replay", FALSE, 0, <<>>, "Failed to open log file for reading", NoEntry)
    ELSE IF io = "read"
    THEN Result("replay", FALSE, 0, <<>>, "Failed to read line from log file", NoEntry)
    ELSE Result("replay", TRUE, 0, Entries(file), "none", NoEntry)

----------------------------------------------------------------------------
(* Initial state: test setup_wal, WriteAheadLog::new on a fresh path *)

NoCall == [t \in Threads |-> "idle"]

Init ==
    /\ exists = TRUE
    /\ file = <<>>
    /\ synced = 0
    /\ alive = TRUE
    /\ sequence_counter = 0
    /\ pc = NoCall
    /\ arg = [t \in Threads |-> NoArg]
    /\ reg = [t \in Threads |-> 0]
    /\ ent = [t \in Threads |-> NoEntry]
    /\ clean = [t \in Threads |-> TRUE]
    /\ result = Result("new", TRUE, 0, <<>>, "none", NoEntry)
    /\ calls = <<>>
    /\ ncalls = 0
    /\ crashed = FALSE
    /\ next = 0
    /\ removed = FALSE

\* A counter that is bumped twice per call.
IncrementTwice(n) == n + 2

\* Line 41: self.sequence_counter += 1
Increment(n) == n + 1

\* A return without the fence: nothing is forced to stable storage.
SyncedNothing(f) == 0

\* Line 63: file.sync_all() makes the whole content f durable.
SyncedLen(f) == Len(f)

AllIdle == \A t \in Threads : pc[t] = "idle"

\* The file holds only complete lines.
EndsClean(f) == f = <<>> \/ f[Len(f)] = NL

----------------------------------------------------------------------------
(* write_log_entry, step by step *)

\* The call returns Ok(ret): the thread's locals go away, the call is recorded.
FinishOk(t, ret) ==
    /\ pc' = [pc EXCEPT ![t] = "idle"]
    /\ arg' = [arg EXCEPT ![t] = NoArg]
    /\ reg' = [reg EXCEPT ![t] = 0]
    /\ ent' = [ent EXCEPT ![t] = NoEntry]
    /\ clean' = [clean EXCEPT ![t] = TRUE]
    /\ result' = Result("append", TRUE, ret, <<>>, "none", NoEntry)
    /\ calls' = Append(calls, [cur |-> TRUE, ok |-> TRUE, ret |-> ret,
                               arg |-> arg[t], ent |-> ent[t], clean |-> clean[t]])

\* The call returns Err with the context why (the `?` operator).
FinishErr(t, why) ==
    /\ pc' = [pc EXCEPT ![t] = "idle"]
    /\ arg' = [arg EXCEPT ![t] = NoArg]
    /\ reg' = [reg EXCEPT ![t] = 0]
    /\ ent' = [ent EXCEPT ![t] = NoEntry]
    /\ clean' = [clean EXCEPT ![t] = TRUE]
    /\ result' = Result("append", FALSE, 0, <<>>, why, ent[t])
    /\ calls' = Append(calls, [cur |-> TRUE, ok |-> FALSE, ret |-> 0,
                               arg |-> NoArg, ent |-> NoEntry, clean |-> TRUE])

\* Line 41, first half: the call starts and loads self.sequence_counter.
\* exclusive: the borrow checker's &mut self, no other call is in progress.
BeginAppend(t, a, exclusive) ==
    /\ alive
    /\ pc[t] = "idle"
    /\ exclusive => AllIdle
    /\ ncalls + next < MaxWrites
    /\ ncalls' = ncalls + 1
    /\ pc' = [pc EXCEPT ![t] = "store"]
    /\ arg' = [arg EXCEPT ![t] = a]
    /\ reg' = [reg EXCEPT ![t] = sequence_counter]
    /\ result' = NoResult
    /\ UNCHANGED <<exists, file, synced, alive, sequence_counter, ent, clean,
                   calls, crashed, next, removed>>

\* Line 41, second half: the incremented value is stored.
StoreCounter(t) ==
    /\ pc[t] = "store"
    /\ sequence_counter' = Increment(reg[t])
    /\ pc' = [pc EXCEPT ![t] = "construct"]
    /\ UNCHANGED <<exists, file, synced, alive, arg, reg, ent, clean,
                   result, calls, ncalls, crashed, next, removed>>

\* Lines 43-58: LogEntry::new(self.sequence_counter, ...), its serialization,
\* and OpenOptions::new().create(true).append(true).open(path).
\* reread: the counter is read from memory again; otherwise the value the
\* thread has just computed is used (the same value unless threads race).
\* ok: the open succeeds.
ConstructAndOpen(t, reread, ok) ==
    /\ pc[t] = "construct"
    /\ LET n == IF reread THEN sequence_counter ELSE Increment(reg[t])
           e == LogEntryNew(n, arg[t], ncalls)
       IN  IF ok
           THEN /\ ent' = [ent EXCEPT ![t] = e]
                /\ exists' = TRUE
                /\ pc' = [pc EXCEPT ![t] = "write"]
                /\ UNCHANGED <<arg, reg, clean, result, calls>>
           ELSE /\ pc' = [pc EXCEPT ![t] = "idle"]
                /\ arg' = [arg EXCEPT ![t] = NoArg]
                /\ reg' = [reg EXCEPT ![t] = 0]
                /\ result' = Result("append", FALSE, 0, <<>>, "Failed to open log file", e)
                /\ calls' = Append(calls, [cur |-> TRUE, ok |-> FALSE, ret |-> 0,
                                           arg |-> NoArg, ent |-> NoEntry, clean |-> TRUE])
                /\ UNCHANGED <<ent, clean, exists>>
    /\ UNCHANGED <<file, synced, alive, sequence_counter, ncalls, crashed,
                   next, removed>>

\* Lines 60-61, writeln!: the write of entry_json.  n tokens reach the file;
\* the write fails unless all of them do.
WriteJson(t, n) ==
    /\ pc[t] = "write"
    /\ n \in 0..Len(ToJson(ent[t]))
    /\ file' = file \o SubSeq(ToJson(ent[t]), 1, n)
    /\ IF n = Len(ToJson(ent[t]))
       THEN /\ pc' = [pc EXCEPT ![t] = "nl"]
            /\ clean' = [clean EXCEPT ![t] = EndsClean(file)]
            /\ UNCHANGED <<arg, reg, ent, result, calls>>
       ELSE FinishErr(t, "Failed to write log entry to file")
    /\ UNCHANGED <<exists, synced, alive, sequence_counter, ncalls, crashed,
                   next, removed>>

\* Lines 60-61, writeln!: the write of the newline.
WriteNewline(t, ok) ==
    /\ pc[t] = "nl"
    /\ IF ok
       THEN /\ file' = Append(file, NL)
            /\ pc' = [pc EXCEPT ![t] = "sync"]
            /\ UNCHANGED <<arg, reg, ent, clean, result, calls>>
       ELSE /\ FinishErr(t, "Failed to write log entry to file")
            /\ UNCHANGED file
    /\ UNCHANGED <<exists, synced, alive, sequence_counter, ncalls, crashed,
                   next, removed>>

\* Lines 63-66: file.sync_all() and Ok(self.sequence_counter).
\* reread: as in ConstructAndOpen.
SyncAndReturn(t, ok, reread) ==
    /\ pc[t] = "sync"
    /\ IF ok
       THEN /\ synced' = SyncedLen(file)
            /\ FinishOk(t, IF reread THEN sequence_counter ELSE Increment(reg[t]))
       ELSE /\ FinishErr(t, "Failed to sync log file")
            /\ UNCHANGED synced
    /\ UNCHANGED <<exists, file, alive, sequence_counter, ncalls, crashed,
                   next, removed>>

----------------------------------------------------------------------------
(* read_log_entries, WriteAheadLog::new, and the environment *)

\* A replay that adopts the number of entries it read as the counter.
ReplayAdoptsCounter(io) ==
    /\ alive
    /\ AllIdle
    /\ result' = ReadLogEntries(io)
    /\ sequence_counter' = Len(ReadLogEntries(io).entries)
    /\ UNCHANGED <<exists, file, synced, alive, pc, arg, reg,
                   ent, clean, calls, ncalls, crashed, next, removed>>

Replay(io) ==
    /\ alive
    /\ AllIdle
    /\ result' = ReadLogEntries(io)
    /\ UNCHANGED <<exists, file, synced, alive, sequence_counter, pc, arg, reg,
                   ent, clean, calls, ncalls, crashed, next, removed>>

\* File::create whether or not the file exists: an existing file is truncated.
EnsureLogFileAlwaysCreates(ok) ==
    IF ok THEN [exists |-> TRUE, file |-> <<>>, synced |-> 0, ok |-> TRUE]
    ELSE [exists |-> exists, file |-> file, synced |-> synced, ok |-> FALSE]

\* ensure_log_file_exists: the file after the call; ok: File::create succeeds.
EnsureLogFileExists(ok) ==
    IF exists THEN [exists |-> TRUE, file |-> file, synced |-> synced, ok |-> TRUE]
    ELSE IF ok THEN [exists |-> TRUE, file |-> <<>>, synced |-> 0, ok |-> TRUE]
    ELSE [exists |-> FALSE, file |-> <<>>, synced |-> 0, ok |-> FALSE]

\* WriteAheadLog::new: a new instance replaces the one the caller held; when
\* new fails the caller has the instance it had, if any.
New(ok) ==
    /\ AllIdle
    /\ LET f == EnsureLogFileExists(ok) IN
       /\ exists' = f.exists
       /\ file' = f.file
       /\ synced' = f.synced
       /\ alive' = (f.ok \/ alive)
       /\ sequence_counter' = IF f.ok THEN 0 ELSE sequence_counter
       /\ result' = Result("new", f.ok, 0, <<>>,
                           IF f.ok THEN "none" ELSE "Failed to create log file", NoEntry)
       /\ calls' = IF f.ok THEN [i \in DOMAIN calls |-> [calls[i] EXCEPT !.cur = FALSE]]
                         ELSE calls
    /\ UNCHANGED <<pc, arg, reg, ent, clean, ncalls, crashed, next, removed>>

\* The process (or the machine) stops: the instance and the calls in progress
\* are gone, and the file keeps its first k tokens, at least the synced ones.
Crash(k) ==
    /\ alive
    /\ k \in synced..Len(file)
    /\ crashed' = TRUE
    /\ file' = SubSeq(file, 1, k)
    /\ alive' = FALSE
    /\ pc' = NoCall
    /\ arg' = [t \in Threads |-> NoArg]
    /\ reg' = [t \in Threads |-> 0]
    /\ ent' = [t \in Threads |-> NoEntry]
    /\ clean' = [t \in Threads |-> TRUE]
    /\ result' = NoResult
    /\ UNCHANGED <<exists, synced, sequence_counter, calls, ncalls, next, removed>>

\* Another writer appends a line to the file (test_corrupted_log_entry).
ExternalLines == { <<GARBAGE, NL>>, <<SP, NL>> }

ExternalWrite(line) ==
    /\ exists
    /\ AllIdle
    /\ ncalls + next < MaxWrites
    /\ next' = next + 1
    /\ file' = file \o line
    /\ result' = NoResult
    /\ UNCHANGED <<exists, synced, alive, sequence_counter, pc, arg, reg, ent,
                   clean, calls, ncalls, crashed, removed>>

\* The file is removed from the path.
RemoveFile ==
    /\ exists
    /\ AllIdle
    /\ ~removed
    /\ removed' = TRUE
    /\ exists' = FALSE
    /\ file' = <<>>
    /\ synced' = 0
    /\ result' = NoResult
    /\ UNCHANGED <<alive, sequence_counter, pc, arg, reg, ent, clean, calls,
                   ncalls, crashed, next>>

----------------------------------------------------------------------------
(* Specifications *)

\* write_log_entry by the thread t with the arguments in A.  exclusive: the
\* calls on the instance are serialised (&mut self).  F: the outcomes of the
\* I/O calls, TRUE for success.
AppendStep(t, A, exclusive, F) ==
    \/ \E a \in A : BeginAppend(t, a, exclusive)
    \/ StoreCounter(t)
    \/ \E reread \in BOOLEAN, ok \in F : ConstructAndOpen(t, reread, ok)
    \/ \E n \in 0..2 : (n = 2 \/ FALSE \in F) /\ WriteJson(t, n)
    \/ \E ok \in F : WriteNewline(t, ok)
    \/ \E ok \in F, reread \in BOOLEAN : SyncAndReturn(t, ok, reread)

\* Safe callers, I/O errors in write_log_entry, and reopening.
Next ==
    \/ \E t \in Threads : AppendStep(t, Args, TRUE, BOOLEAN)
    \/ Replay("ok")
    \/ \E ok \in BOOLEAN : New(ok)

Spec == Init /\ [][Next]_vars

\* Safe callers, I/O errors, reopening, and the file removed under the log.
NextFs ==
    \/ \E t \in Threads : AppendStep(t, {Arg1}, TRUE, BOOLEAN)
    \/ \E io \in IoOutcomes : Replay(io)
    \/ \E ok \in BOOLEAN : New(ok)
    \/ RemoveFile

SpecFs == Init /\ [][NextFs]_vars

\* Safe callers, I/O errors, and another writer of the file.
NextCorrupt ==
    \/ \E t \in Threads : AppendStep(t, Args, TRUE, BOOLEAN)
    \/ \E io \in IoOutcomes : Replay(io)
    \/ \E line \in ExternalLines : ExternalWrite(line)

SpecCorrupt == Init /\ [][NextCorrupt]_vars

\* Safe callers, I/O errors, crashes and restarts.
NextCrash ==
    \/ \E t \in Threads : AppendStep(t, {Arg1}, TRUE, BOOLEAN)
    \/ \E io \in IoOutcomes : Replay(io)
    \/ \E ok \in BOOLEAN : New(ok)
    \/ \E k \in 0..Len(file) : Crash(k)

SpecCrash == Init /\ [][NextCrash]_vars

\* test_concurrent_writes: threads call write_log_entry on one instance
\* through an aliased raw pointer, with no I/O error and no crash.
NextConc ==
    \/ \E t \in Threads : AppendStep(t, Args, FALSE, {TRUE})
    \/ Replay("ok")

SpecConc == Init /\ [][NextConc]_vars

----------------------------------------------------------------------------
(* Vocabulary of the properties *)

\* The calls made through the instance the caller holds now.
CurrentCalls == SelectSeq(calls, LAMBDA c : c.cur)

\* The calls that returned Ok with the file holding only complete lines when
\* their record was written.
AckedCalls == SelectSeq(calls, LAMBDA c : c.ok /\ c.clean)

JsonOf(es) == [i \in 1..Len(es) |-> ToJson(es[i])]

\* e is one of the entries es, as a record of the durable encoding.
Contains(es, e) == \E i \in 1..Len(es) : ToJson(es[i]) = ToJson(e)

\* xs can be obtained from ys by deleting elements.
RECURSIVE IsSubseq(_, _)
IsSubseq(xs, ys) ==
    IF xs = <<>> THEN TRUE
    ELSE IF ys = <<>> THEN FALSE
    ELSE IF Head(xs) = Head(ys) THEN IsSubseq(Tail(xs), Tail(ys))
    ELSE IsSubseq(xs, Tail(ys))

\* The JSON texts a LogEntry can have in this model.
RecordTexts ==
    { ToJson(LogEntryNew(n, a, ts)) :
        n \in 0..MaxWrites, a \in Args, ts \in 0..MaxWrites }

\* The lines of f that are the text of a record, in file order.
WellFormedLines(f) ==
    LET ls == Lines(f)
        trimmed == [i \in 1..Len(ls) |-> Trim(ls[i])]
    IN  SelectSeq(trimmed, LAMBDA l : l \in RecordTexts)

----------------------------------------------------------------------------
(* Properties *)

\* C1: when every write_log_entry call made through an instance has returned
\* Ok, the i-th call returned i: the returned numbers are 1, 2, ..., N in
\* call order.
C1_SequenceNumbersContiguous ==
    LET cs == CurrentCalls IN
    (\A i \in 1..Len(cs) : cs[i].ok) => (\A i \in 1..Len(cs) : cs[i].ret = i)

C1_Witness ==
    /\ Len(CurrentCalls) = 3
    /\ \A i \in 1..3 : CurrentCalls[i].ok
    /\ CurrentCalls[3].ret = 3

\* C2: after N calls that all returned Ok, a replay that returns Ok returns N
\* entries, and the i-th has the number the i-th call returned and the
\* transaction_id, operation_type, key, old_value and new_value it was passed.
C2_ReplayRoundTrip ==
    (result.op = "replay" /\ result.ok /\ \A i \in 1..Len(calls) : calls[i].ok)
    => /\ Len(result.entries) = Len(calls)
       /\ \A i \in 1..Len(calls) :
            LET e == result.entries[i]
                c == calls[i]
            IN  /\ e.sequence_number = c.ret
                /\ e.transaction_id = c.arg.transaction_id
                /\ e.operation_type = c.arg.operation_type
                /\ e.key = c.arg.key
                /\ e.old_value = c.arg.old_value
                /\ e.new_value = c.arg.new_value

\* C3: the sequence number a call assigns to its entry is greater than every
\* sequence number read_log_entries finds in the file at that moment, also
\* when the instance was opened on a file that already held entries.
C3_ReopenAssignsGreater ==
    \A t \in Threads :
        pc[t] = "write" =>
            \A i \in 1..Len(Entries(file)) :
                Entries(file)[i].sequence_number < ent[t].sequence_number

\* C4: when the threads' calls have all returned, no two of them assigned the
\* same sequence number, and replay returns one entry per call, with the
\* sequence numbers 1..(number of calls).
C4_ConcurrentDistinct ==
    (result.op = "replay" /\ AllIdle)
    => /\ \A i, j \in 1..Len(calls) :
            i # j => calls[i].ent.sequence_number # calls[j].ent.sequence_number
       /\ Len(result.entries) = Len(calls)
       /\ {result.entries[i].sequence_number : i \in 1..Len(result.entries)}
            = 1..Len(calls)

\* C5: an entry whose call returned Ok, written when the file held only
\* complete lines, is among the entries of the file in every later state, and
\* in the result of every later replay that returns Ok, across crashes and
\* reopening.
C5_AckedNeverLost ==
    \A i \in 1..Len(AckedCalls) :
        /\ Contains(Entries(file), AckedCalls[i].ent)
        /\ (result.op = "replay" /\ result.ok)
              => Contains(result.entries, AckedCalls[i].ent)

C5_Witness ==
    /\ crashed
    /\ result.op = "replay"
    /\ result.ok
    /\ Len(AckedCalls) >= 1
    /\ Len(file) > synced
    /\ Contains(result.entries, AckedCalls[1].ent)

\* C6: a replay that meets no I/O error returns exactly the entries of the
\* lines that are the text of a record, in file order; malformed and blank
\* lines are passed over.
C6_ReplaySkipsMalformed ==
    result.op = "replay" =>
        /\ result.ok <=> result.err = "none"
        /\ result.ok => JsonOf(result.entries) = WellFormedLines(file)

C6_Witness ==
    /\ result.op = "replay"
    /\ result.ok
    /\ Len(result.entries) = 2
    /\ Len(Lines(file)) = 3
    /\ Lines(file)[2] = <<GARBAGE>>

\* C7: when write_log_entry returns Err, the entry it had built is not among
\* the entries read_log_entries finds in the file.
C7_FailedAppendLeavesNothing ==
    (result.op = "append" /\ ~result.ok) => ~Contains(Entries(file), result.ent)

\* C9: a replay while no file exists at the path returns Ok with no entries
\* and does not create the file; a replay of an existing empty file that
\* returns Ok returns no entries.
C9_ReplayMissingFile ==
    [][ result'.op = "replay" =>
          /\ ~exists => (result'.ok /\ result'.entries = <<>> /\ ~exists')
          /\ (exists /\ file = <<>> /\ result'.ok) => result'.entries = <<>> ]_vars

C9_Witness ==
    /\ result.op = "replay"
    /\ ~exists
    /\ result.ok
    /\ result.entries = <<>>
    /\ Len(calls) >= 1

\* C10: WriteAheadLog::new leaves an existing file as it is and creates an
\* empty one when there is none; and a replay that returns Ok returns, in
\* call order, the entries of the acknowledged calls, those of the instances
\* opened before included (while the file has not been removed).
C10_OpenLeavesFile ==
    [][ /\ result'.op = "new" =>
             IF exists THEN result'.ok /\ exists' /\ file' = file
             ELSE result'.ok => (exists' /\ file' = <<>>)
        /\ (result'.op = "replay" /\ result'.ok /\ ~removed) =>
             IsSubseq(JsonOf([i \in 1..Len(AckedCalls) |-> AckedCalls[i].ent]),
                      JsonOf(result'.entries)) ]_vars

C10_Witness ==
    /\ result.op = "replay"
    /\ result.ok
    /\ ~removed
    /\ Len(AckedCalls) = 2
    /\ ~AckedCalls[1].cur
    /\ ~AckedCalls[2].cur
    /\ Len(result.entries) = 2

\* C8: the records of the file are in strictly increasing sequence_number
\* order in every state.
C8_FileOrderIsSequenceOrder ==
    \A i, j \in 1..Len(Entries(file)) :
        i < j => Entries(file)[i].sequence_number < Entries(file)[j].sequence_number

\* C11: with a record torn by a crash in the file (no call has returned
\* Err), a replay that returns Ok returns the entry of every call that
\* returned Ok, the calls made after the crash included.
C11_AppendAfterTornRecord ==
    (result.op = "replay" /\ result.ok /\ \A i \in 1..Len(calls) : calls[i].ok)
    => \A i \in 1..Len(calls) : Contains(result.entries, calls[i].ent)

\* C12: the calls of an instance that returned Ok returned 1, 2, 3, ... in
\* call order, whatever calls returned Err in between.
C12_NoGapsAcrossFailures ==
    LET cs == CurrentCalls IN
    \A i \in 1..Len(cs) :
        cs[i].ok => cs[i].ret = 1 + Cardinality({j \in 1..(i - 1) : cs[j].ok})

\* C13: when no call has returned Err, every entry a replay returns is the
\* entry of a call that returned Ok: a call cut by a crash before sync_all
\* returned leaves no entry.
C13_UnackedNotInLog ==
    (result.op = "replay" /\ result.ok /\ \A i \in 1..Len(calls) : calls[i].ok)
    => \A i \in 1..Len(result.entries) :
          \E j \in 1..Len(calls) : ToJson(calls[j].ent) = ToJson(result.entries[i])

\* C14: the value a call returns is the sequence_number of the entry it built
\* and wrote, also when calls of other threads run in between.
C14_ReturnIsWrittenNumber ==
    \A i \in 1..Len(calls) :
        calls[i].ok => calls[i].ret = calls[i].ent.sequence_number

IsPrefix(xs, ys) == Len(xs) <= Len(ys) /\ SubSeq(ys, 1, Len(xs)) = xs

\* C15: every step of an append or an open leaves the content of the file a
\* prefix of the content after it, and the entries a replay would have
\* returned before the step a prefix of those it returns after it.
C15_AppendOnly ==
    [][/\ IsPrefix(file, file')
       /\ IsPrefix(Entries(file), Entries(file'))]_vars

\* C16: read_log_entries returns Err exactly when the file exists and opening
\* it or reading a line fails, whatever the lines hold; an Err carries no
\* entries; and what a replay returned is one of these outcomes.
C16_ReplayErrorCases ==
    /\ \A io \in IoOutcomes :
          LET r == ReadLogEntries(io) IN
          /\ r.ok <=> ~(exists /\ io \in {"open", "read"})
          /\ ~r.ok => /\ r.entries = <<>>
                      /\ r.err = IF io = "open"
                                 THEN "Failed to open log file for reading"
                                 ELSE "Failed to read line from log file"
    /\ result.op = "replay" => \E io \in IoOutcomes : result = ReadLogEntries(io)

\* A replay returned the read error on a file that holds an entry and a line
\* that does not decode.
C16_Witness ==
    /\ result.op = "replay"
    /\ ~result.ok
    /\ result.err = "Failed to read line from log file"
    /\ result.entries = <<>>
    /\ Len(Entries(file)) >= 1
    /\ \E i \in 1..Len(Lines(file)) :
          Trim(Lines(file)[i]) # <<>> /\ ~ParsesOk(Trim(Lines(file)[i]))

\* C17: a step that returns from a replay changes neither the file nor the
\* counter; the entries it returns are those of the file alone, so a replay
\* right after a replay returns the same entries.
C17_ReplayReadOnly ==
    [][result'.op = "replay"
       => /\ file' = file /\ exists' = exists /\ synced' = synced
          /\ sequence_counter' = sequence_counter
          /\ calls' = calls
          /\ result'.ok => result'.entries = (IF exists THEN Entries(file) ELSE <<>>)
          /\ (result.op = "replay" /\ result.ok /\ result'.ok)
             => result'.entries = result.entries]_vars

\* A replay returned two entries to an instance whose counter is 3: one call
\* of the instance failed.
C17_Witness ==
    /\ result.op = "replay"
    /\ result.ok
    /\ Len(result.entries) = 2
    /\ sequence_counter = 3

====
